---- MODULE Spec2Model ----
(***************************************************************************)
(* MongoDBGraphStore (langchain_mongodb/graphrag/graph.py): the upsert     *)
(* merge of extracted entities (add_documents) and the $graphLookup        *)
(* traversal (related_entities, similarity_search).                        *)
(*                                                                         *)
(* The entity-extraction model is an external collaborator: what it        *)
(* returns for a document (a list of entity records) or for a query (a     *)
(* list of identifiers) is an input of the actions.  The collection is a   *)
(* sequence of stored documents in insertion order.                        *)
(***************************************************************************)
EXTENDS Integers, Sequences, FiniteSets, TLC

VARIABLES
    collection,   \* self.collection: stored entity documents, insertion order
    max_depth,    \* self.max_depth, set by the constructor
    call,         \* the last call made on the store: arguments and return value
    nOps,         \* number of update operations sent so far (bounds the run)
    lookup,       \* the aggregation in progress, when it is followed round by round
    writers       \* the add_documents calls in progress, when callers run concurrently

vars == <<collection, max_depth, call, nOps, lookup, writers>>

---------------------------------------------------------------------------
\* Bounds of the model.
MaxDocs == 2          \* documents per add_documents call
MaxEntities == 2      \* entities extracted from one document
MaxMergeOps == 2      \* update operations over a whole merge run
MaxGraphOps == 2      \* update operations over a whole traversal run
MaxLookupOps == 2     \* update operations over a run that follows the lookup rounds
MaxConcurrentOps == 2 \* update operations of the concurrent callers together
MaxSeeds == 2         \* length of a starting_entities list
MaxDepth == 1         \* largest max_depth argument / constructor value tried

\* Program constants.
CtorDefaultMaxDepth == 2      \* __init__(..., max_depth: int = 2, ...)
DefaultMaxDepth == 3          \* related_entities(..., max_depth=3)

\* The identifiers the extraction model returns (the names of the example of
\* the extraction prompt).
IDs == {"Alice Palace", "MongoDB", "Jarnail Singh"}
MergeIDs == {"Alice Palace", "MongoDB"}
LookupIDs == {"Alice Palace", "MongoDB"}

\* A field that is not there: a mapping with no keys.
NoFields == [k \in {} |-> <<>>]

Range(s) == {s[i] : i \in DOMAIN s}

\* dict.get(k, default) on a mapping.
Get(f, k, default) == IF k \in DOMAIN f THEN f[k] ELSE default

---------------------------------------------------------------------------
\* The update operators of the store, as add_documents uses them.

\* ($push in place of $addToSet: the value is appended whatever the array holds.)
AddToSet_Push(arr, v) == Append(arr, v)

\* ($set in place of $addToSet: the value replaces what was stored.)
AddToSet_Set(arr, v) == <<v>>

\* $addToSet of one value: appended unless the array already holds it.
AddToSet(arr, v) ==
    IF \E i \in DOMAIN arr : arr[i] = v THEN arr ELSE Append(arr, v)

\* ($push with $each in place of $addToSet: the values are appended as they come.)
AddEachToSet_Push(arr, vs) == arr \o vs

\* $addToSet with $each: every value of vs in turn.
RECURSIVE AddEachToSet(_, _)
AddEachToSet(arr, vs) ==
    IF vs = <<>> THEN arr
    ELSE AddEachToSet(AddToSet(arr, Head(vs)), Tail(vs))

\* "$addToSet": {"properties.k": v, ..., "relationships.k": {"$each": v}, ...}
\* applied to a stored (or freshly inserted) document.
ApplyAddToSet(doc, entity) ==
    [doc EXCEPT
        !.properties =
            [k \in DOMAIN doc.properties \cup DOMAIN entity.properties |->
                IF k \in DOMAIN entity.properties
                THEN AddToSet(Get(doc.properties, k, <<>>), entity.properties[k])
                ELSE doc.properties[k]],
        !.relationships =
            [k \in DOMAIN doc.relationships \cup DOMAIN entity.relationships |->
                IF k \in DOMAIN entity.relationships
                THEN AddEachToSet(Get(doc.relationships, k, <<>>),
                                  entity.relationships[k])
                ELSE doc.relationships[k]]]

\* A document with no field set.
NoDoc == [_id |-> 0, ID |-> "", type |-> "", properties |-> NoFields,
          relationships |-> NoFields]

\* "$setOnInsert": {"ID": ..., "type": ...}: the document an upsert inserts.
SetOnInsert(coll, entity) ==
    [_id |-> Len(coll) + 1, ID |-> entity.ID, type |-> entity.type,
     properties |-> NoFields, relationships |-> NoFields]

\* (A filter on a field the documents do not carry: it matches nothing.)
Matching_Nothing(coll, id) == {}

\* (An empty filter: it matches every document.)
Matching_Any(coll, id) == DOMAIN coll

\* filter={"ID": entity["ID"]}: positions of the matching documents.
Matching(coll, id) == {i \in DOMAIN coll : coll[i].ID = id}

Min(S) == CHOOSE m \in S : \A n \in S : m <= n

\* ("type" under "$set" in place of "$setOnInsert": written on every update.)
UpdateOne_SetType(coll, entity) ==
    LET hits == Matching(coll, entity.ID) IN
    IF hits # {}
    THEN LET i == Min(hits)
             new == [ApplyAddToSet(coll[i], entity) EXCEPT !.type = entity.type]
         IN [coll |-> [coll EXCEPT ![i] = new],
             matched |-> 1,
             modified |-> IF new = coll[i] THEN 0 ELSE 1,
             upserted |-> 0]
    ELSE [coll |-> Append(coll, ApplyAddToSet(SetOnInsert(coll, entity), entity)),
          matched |-> 0, modified |-> 0, upserted |-> 1]

\* UpdateOne(filter, update, upsert=True) executed on the collection.
UpdateOne(coll, entity) ==
    LET hits == Matching(coll, entity.ID) IN
    IF hits # {}
    THEN LET i == Min(hits)
             new == ApplyAddToSet(coll[i], entity)
         IN [coll |-> [coll EXCEPT ![i] = new],
             matched |-> 1,
             modified |-> IF new = coll[i] THEN 0 ELSE 1,
             upserted |-> 0]
    ELSE [coll |-> Append(coll, ApplyAddToSet(SetOnInsert(coll, entity), entity)),
          matched |-> 0, modified |-> 0, upserted |-> 1]

\* collection.bulk_write(operations): the operations in order; the
\* BulkWriteResult counts what they did.
RECURSIVE BulkWrite(_, _)
BulkWrite(coll, entities) ==
    IF entities = <<>>
    THEN [coll |-> coll, matched |-> 0, modified |-> 0, upserted |-> 0]
    ELSE LET one == UpdateOne(coll, Head(entities))
             rest == BulkWrite(one.coll, Tail(entities))
         IN [coll |-> rest.coll,
             matched |-> one.matched + rest.matched,
             modified |-> one.modified + rest.modified,
             upserted |-> one.upserted + rest.upserted]

BulkWriteResult(w) ==
    [matched_count |-> w.matched, modified_count |-> w.modified,
     upserted_count |-> w.upserted]

\* "if operations: results.append(...)".
AppendResult(results, entities, w) ==
    IF entities # <<>> THEN Append(results, BulkWriteResult(w)) ELSE results

\* The loop of add_documents over the documents; documents[k] is what
\* extract_entities returned for the k-th document.
RECURSIVE AddDocuments(_, _, _)
AddDocuments(coll, documents, results) ==
    IF documents = <<>> THEN [coll |-> coll, results |-> results]
    ELSE LET entities == Head(documents)
             w == BulkWrite(coll, entities)
         IN AddDocuments(w.coll, Tail(documents),
                         AppendResult(results, entities, w))

---------------------------------------------------------------------------
\* What the extraction model may return.

SeqsUpTo(S, n) == UNION {[1..k -> S] : k \in 0..n}

\* A relationship descriptor: a target, with or without properties.
Descriptor(t, since) ==
    IF since = "" THEN [target |-> t]
    ELSE [target |-> t, properties |-> [since |-> since]]

Entity(id, ty, props, rels) ==
    [ID |-> id, type |-> ty, properties |-> props, relationships |-> rels]

\* Entities of the merge runs: a person with a position or an employer (with or
\* without relationship properties, or the same descriptor twice) or neither,
\* or the same identifier extracted as an organization.
MergeProperties == {NoFields} \cup {[position |-> v] : v \in {"CEO", "CTO"}}
MergeRelationships ==
    {NoFields} \cup
    {[employer |-> <<Descriptor("MongoDB", s)>>] : s \in {"", "2019-05-01"}} \cup
    {[employer |-> <<Descriptor("MongoDB", ""), Descriptor("MongoDB", "")>>]}
MergeEntities ==
    {Entity(id, "Person", p, NoFields) : id \in MergeIDs, p \in MergeProperties}
    \cup
    {Entity(id, "Person", NoFields, r) : id \in MergeIDs, r \in MergeRelationships}
    \cup
    {Entity(id, "Organization", NoFields, NoFields) : id \in MergeIDs}

\* Entities of the traversal runs: at most one edge each, among the
\* identifiers of S.
EdgeEntities(S) ==
    {Entity(id, "Person", NoFields, r) :
        id \in S,
        r \in {NoFields} \cup {[employer |-> <<Descriptor(t, "")>>] : t \in S}}
\* What concurrent callers extract: a person with one property value or one
\* relationship.
ConcurrentEntities ==
    {Entity(id, "Person", p, NoFields) :
        id \in MergeIDs, p \in {[position |-> v] : v \in {"CEO", "CTO"}}}
    \cup {Entity(id, "Person", NoFields, [employer |-> <<Descriptor("MongoDB", "")>>]) :
            id \in MergeIDs}

GraphEntities == EdgeEntities(IDs)
LookupEntities == EdgeEntities(LookupIDs)

\* An entity the extraction model returned without its "type".
MalformedEntities ==
    {[ID |-> "Alice Palace", properties |-> NoFields, relationships |-> NoFields]}

WellFormed(entity) == {"ID", "type"} \subseteq DOMAIN entity

---------------------------------------------------------------------------
\* The aggregation pipeline of related_entities, stage by stage.

\* (The pipeline without its $match stage: every document is a seed.)
Match_All(coll, starting_entities) == coll

\* {"$match": {"ID": {"$in": starting_entities}}}
Match(coll, starting_entities) ==
    SelectSeq(coll, LAMBDA d : d.ID \in Range(starting_entities))

\* "$$this.v.target" on the array stored under one relationship type.
TargetsOf(descriptors) == [i \in DOMAIN descriptors |-> descriptors[i].target]

\* "startWith": the $reduce over $objectToArray("$relationships") that
\* concatenates the targets of every relationship type.  A document without
\* relationships yields null, which matches no stored ID: no start value.
RECURSIVE ConcatTargets(_, _)
ConcatTargets(rels, keys) ==
    IF keys = {} THEN <<>>
    ELSE LET k == CHOOSE x \in keys : TRUE
         IN TargetsOf(rels[k]) \o ConcatTargets(rels, keys \ {k})

\* (startWith that also names the document itself.)
StartWith_Self(doc) ==
    Range(ConcatTargets(doc.relationships, DOMAIN doc.relationships)) \cup {doc.ID}

StartWith(doc) == Range(ConcatTargets(doc.relationships, DOMAIN doc.relationships))

\* "connectFromField": "ID": the value a visited document sends to the next round.
ConnectFrom(doc) == doc.ID

\* "connectToField": "ID": the documents a frontier value selects.
ConnectTo(coll, frontier) == {i \in DOMAIN coll : coll[i].ID \in frontier}

\* One round of the breadth-first search of $graphLookup: query the
\* collection with the frontier, keep what was not visited yet, and make the
\* connectFromField values of the new documents the next frontier.
LookupRound(coll, st) ==
    LET new == ConnectTo(coll, st.frontier) \ st.visited
    IN [frontier |-> {ConnectFrom(coll[i]) : i \in new},
        visited |-> st.visited \cup new,
        depth |-> st.depth + 1,
        more |-> new # {}]

\* (The loop without its depth test.)
ShouldContinue_NoDepthTest(st, maxDepth) == st.more

\* Another round is made while the last one found new documents and the
\* depth is within "maxDepth".
ShouldContinue(st, maxDepth) == st.more /\ st.depth <= maxDepth

RECURSIVE Search(_, _, _)
Search(coll, st, maxDepth) ==
    LET next == LookupRound(coll, st)
    IN IF ShouldContinue(next, maxDepth) THEN Search(coll, next, maxDepth) ELSE next

\* The $graphLookup stage for one input document: positions of the documents
\* put in "connections", and the number of rounds made.
SearchStart(doc) ==
    [frontier |-> StartWith(doc), visited |-> {}, depth |-> 0, more |-> TRUE]

Connections(end) == [connections |-> end.visited, rounds |-> end.depth]

GraphLookup(coll, doc, maxDepth) == Connections(Search(coll, SearchStart(doc), maxDepth))

\* The elements of a set of positions as the documents at them.  The store
\* promises no order inside "connections"; position order is used.
RECURSIVE DocsAt(_, _)
DocsAt(coll, positions) ==
    IF positions = {} THEN <<>>
    ELSE LET i == Min(positions)
         IN <<coll[i]>> \o DocsAt(coll, positions \ {i})

\* {"$unwind": "$connections"} and {"$replaceRoot": {"newRoot": "$connections"}}:
\* one document per connection of each input document.
RECURSIVE Unwind(_, _)
Unwind(coll, lookups) ==
    IF lookups = <<>> THEN <<>>
    ELSE DocsAt(coll, Head(lookups).connections) \o Unwind(coll, Tail(lookups))

\* (The pipeline without its $group stage.)
Group_Missing(docs) == [i \in DOMAIN docs |-> [pos |-> i, doc |-> docs[i]]]

\* {"$group": {"_id": "$ID", "document": {"$first": "$$ROOT"}}} and
\* {"$replaceRoot": {"newRoot": "$document"}}: the first document of each ID.
Group(docs) ==
    SelectSeq([i \in DOMAIN docs |-> [pos |-> i, doc |-> docs[i]]],
              LAMBDA e : \A j \in 1..(e.pos - 1) : docs[j].ID # e.doc.ID)

\* {"$project": {"_id": 0}}
Project(doc) ==
    [ID |-> doc.ID, type |-> doc.type, properties |-> doc.properties,
     relationships |-> doc.relationships]

\* "maxDepth": max_depth or self.max_depth
EffectiveMaxDepth(arg, self_max_depth) == IF arg # 0 THEN arg ELSE self_max_depth

\* The stages after $graphLookup, on the lookups of the matched documents.
Finish(coll, lookups) ==
    LET grouped == Group(Unwind(coll, lookups))
    IN [ret |-> [i \in DOMAIN grouped |-> Project(grouped[i].doc)],
        rounds |-> [k \in DOMAIN lookups |-> lookups[k].rounds]]

\* list(self.collection.aggregate(pipeline))
Aggregate(coll, starting_entities, maxDepth) ==
    LET seeds == Match(coll, starting_entities)
    IN Finish(coll, [k \in DOMAIN seeds |-> GraphLookup(coll, seeds[k], maxDepth)])

---------------------------------------------------------------------------
NoCall ==
    [op |-> "none", documents |-> <<>>, before |-> <<>>, error |-> "",
     starting_entities |-> <<>>,
     max_depth |-> 0, maxDepth |-> 0, rounds |-> <<>>, ret |-> <<>>]

NoLookup == [pc |-> "idle", seeds |-> <<>>, st |-> SearchStart(NoDoc), lookups |-> <<>>]

\* The callers of add_documents: one when the calls follow each other, two
\* when they run at the same time.
SequentialCaller == "A"
Callers == {"A", "B"}

ZeroCounts == [matched |-> 0, modified |-> 0, upserted |-> 0]

\* A caller outside add_documents.  Inside, `todo` counts the documents not
\* yet done, `documents` holds the extractions made so far, `operations` the
\* update operations of the bulk_write in progress that the store has yet to
\* apply, `counts` what the applied ones did, `results` the list built so far;
\* `before` is the collection as the call found it.
NoWriter ==
    [pc |-> "idle", todo |-> 0, before |-> <<>>, documents |-> <<>>,
     operations |-> <<>>, counts |-> ZeroCounts, results |-> <<>>]
NoWriters == [w \in Callers |-> NoWriter]

InCall == {"extract", "update_one", "upsert"}

\* No add_documents call is in progress.
NoCallInProgress == \A w \in Callers : writers[w].pc \notin InCall

\* A run ends with its query: the store is built by add_documents calls and
\* then traversed once.  A traversal changes nothing but the value it returns,
\* so every pair of a store and a query is reached this way.
Queried == call.op \in {"aggregate", "related_entities", "similarity_search"}

\* The record of a call of add_documents that returned its results, or raised
\* `error` (and returned nothing).
Ended(wr, error) ==
    [NoCall EXCEPT !.op = "add_documents",
                   !.documents = wr.documents,
                   !.before = wr.before,
                   !.error = error,
                   !.ret = IF error = "" THEN wr.results ELSE <<>>]

\* What a caller keeps of a call it left, until its next call: what the call
\* extracted and wrote.
Left(wr, pc) == [NoWriter EXCEPT !.pc = pc, !.documents = wr.documents]

\* The loop of add_documents after a document: the next document, or
\* "return results".
Proceed(w, wr) ==
    IF wr.todo > 1
    THEN /\ writers' = [writers EXCEPT ![w] =
                          [wr EXCEPT !.todo = wr.todo - 1, !.pc = "extract",
                                     !.operations = <<>>, !.counts = ZeroCounts]]
         /\ UNCHANGED call
    ELSE /\ writers' = [writers EXCEPT ![w] = Left(wr, "returned")]
         /\ call' = Ended(wr, "")

\* The caller w enters add_documents with n documents.
add_documents_begin(w, n) ==
    /\ writers[w].pc \notin InCall
    /\ LET wr == [NoWriter EXCEPT !.pc = "extract", !.todo = n,
                                  !.before = collection] IN
       IF n = 0
       THEN /\ writers' = [writers EXCEPT ![w] = Left(wr, "returned")]
            /\ call' = Ended(wr, "")
       ELSE /\ writers' = [writers EXCEPT ![w] = wr]
            /\ call' = NoCall
    /\ UNCHANGED <<collection, max_depth, nOps, lookup>>

\* extract_entities returns `entities` for the next document of w, and the
\* loop over them builds the operations: an entity without "ID" or "type"
\* raises KeyError before anything of the document is written; no entity, no
\* bulk_write and no result; otherwise the operations are sent to the store.
extract_entities(w, entities) ==
    /\ writers[w].pc = "extract"
    /\ LET wr == writers[w] IN
       IF \E i \in DOMAIN entities : ~WellFormed(entities[i])
       THEN /\ writers' = [writers EXCEPT ![w] = Left(wr, "raised")]
            /\ call' = Ended(wr, "KeyError")
            /\ UNCHANGED nOps
       ELSE /\ nOps' = nOps + Len(entities)
            /\ IF entities = <<>>
               THEN Proceed(w, [wr EXCEPT
                                  !.documents = Append(@, entities),
                                  !.results = AppendResult(@, entities, ZeroCounts)])
               ELSE /\ writers' = [writers EXCEPT ![w] =
                                     [wr EXCEPT !.documents = Append(@, entities),
                                                !.operations = entities,
                                                !.counts = ZeroCounts,
                                                !.pc = "update_one"]]
                    /\ UNCHANGED call
    /\ UNCHANGED <<collection, max_depth, lookup>>

\* The answer of the extraction model is not JSON: json.loads raises, and
\* add_documents with it; what earlier documents wrote stays.
extract_entities_raises(w) ==
    /\ writers[w].pc = "extract"
    /\ writers' = [writers EXCEPT ![w] = Left(writers[w], "raised")]
    /\ call' = Ended(writers[w], "JSONDecodeError")
    /\ UNCHANGED <<collection, max_depth, nOps, lookup>>

\* What is left to do for w after the store applied its current operation;
\* after the last one bulk_write returns and its result is appended.
AfterOperation(w, wr) ==
    IF Tail(wr.operations) # <<>>
    THEN /\ writers' = [writers EXCEPT ![w] =
                          [wr EXCEPT !.operations = Tail(@), !.pc = "update_one"]]
         /\ UNCHANGED call
    ELSE Proceed(w, [wr EXCEPT
                       !.operations = <<>>,
                       !.results = AppendResult(@, wr.documents[Len(wr.documents)],
                                                wr.counts)])

\* The store executes the next UpdateOne of w up to the point where it has
\* either updated the matching document or found that there is none.  It
\* executes each UpdateOne on its own: the operations of other callers may be
\* executed between the search that found nothing and the insertion.
update_one_match(w) ==
    /\ writers[w].pc = "update_one"
    /\ LET wr == writers[w]
           entity == Head(wr.operations)
           one == UpdateOne(collection, entity)
       IN IF Matching(collection, entity.ID) # {}
          THEN /\ collection' = one.coll
               /\ AfterOperation(w, [wr EXCEPT
                    !.counts = [matched |-> @.matched + one.matched,
                                modified |-> @.modified + one.modified,
                                upserted |-> @.upserted]])
          ELSE /\ writers' = [writers EXCEPT ![w].pc = "upsert"]
               /\ UNCHANGED <<collection, call>>
    /\ UNCHANGED <<max_depth, nOps, lookup>>

\* The store inserts the document of an UpdateOne of w that matched nothing.
\* The collection carries no unique index on "ID" (the class creates none), so
\* the insertion is never rejected.
update_one_upsert(w) ==
    /\ writers[w].pc = "upsert"
    /\ LET wr == writers[w]
           entity == Head(wr.operations)
       IN /\ collection' = Append(collection,
                                  ApplyAddToSet(SetOnInsert(collection, entity), entity))
          /\ AfterOperation(w, [wr EXCEPT !.counts.upserted = @ + 1])
    /\ UNCHANGED <<max_depth, nOps, lookup>>

\* The steps of the add_documents calls of the callers W once entered: the
\* extractions return up to maxEntities entities of E while the run has update
\* operations left.
WriteSteps(W, E, maxEntities, maxOps) ==
    \/ \E w \in W, k \in 0..maxEntities :
          /\ nOps + k <= maxOps
          /\ \E entities \in [1..k -> E] : extract_entities(w, entities)
    \/ \E w \in W : extract_entities_raises(w)
    \/ \E w \in W : update_one_match(w)
    \/ \E w \in W : update_one_upsert(w)

\* add_documents called again and again by one caller.
AddCall(E, maxDocs, maxEntities, maxOps) ==
    \/ \E n \in 0..maxDocs : ~Queried /\ add_documents_begin(SequentialCaller, n)
    \/ WriteSteps({SequentialCaller}, E, maxEntities, maxOps)

\* The body of related_entities, called as `op`.
Traverse(op, starting_entities, arg) ==
    LET maxDepth == EffectiveMaxDepth(arg, max_depth)
        r == Aggregate(collection, starting_entities, maxDepth)
    IN /\ ~Queried
       /\ NoCallInProgress
       /\ call' = [NoCall EXCEPT !.op = op,
                                 !.starting_entities = starting_entities,
                                 !.max_depth = arg,
                                 !.maxDepth = maxDepth,
                                 !.rounds = r.rounds,
                                 !.ret = r.ret]
       /\ writers' = [writers EXCEPT ![SequentialCaller] = NoWriter]
       /\ UNCHANGED <<collection, max_depth, nOps, lookup>>

\* related_entities(starting_entities, max_depth)
related_entities(starting_entities, arg) ==
    Traverse("related_entities", starting_entities, arg)

\* similarity_search(input_document): starting_ids is what extract_entity_names
\* returned; related_entities is called without max_depth.  chat_response(query)
\* retrieves with similarity_search(query) and hands the list to the chat model,
\* whose answer is not modelled.
similarity_search(starting_ids) ==
    Traverse("similarity_search", starting_ids, DefaultMaxDepth)

InitMerge ==
    /\ collection = <<>>
    /\ max_depth = CtorDefaultMaxDepth
    /\ call = NoCall
    /\ nOps = 0
    /\ lookup = NoLookup
    /\ writers = NoWriters

\* What the extraction model returns in the merge runs.
MergeExtractions == MergeEntities \cup MalformedEntities

NextMerge == AddCall(MergeExtractions, MaxDocs, MaxEntities, MaxMergeOps)

SpecMerge == InitMerge /\ [][NextMerge]_vars

\* add_documents called once by each of two callers, at the same time.
NextConcurrent ==
    \/ \E w \in Callers, n \in 0..MaxDocs :
          writers[w].pc = "idle" /\ add_documents_begin(w, n)
    \/ WriteSteps(Callers, ConcurrentEntities, MaxEntities, MaxConcurrentOps)

SpecConcurrent == InitMerge /\ [][NextConcurrent]_vars

\* The constructor is given a max_depth up to the bound, or its default.
InitGraph ==
    /\ collection = <<>>
    /\ max_depth \in 0..MaxDepth \cup {CtorDefaultMaxDepth}
    /\ call = NoCall
    /\ nOps = 0
    /\ lookup = NoLookup
    /\ writers = NoWriters

SeedLists == SeqsUpTo(IDs, MaxSeeds)
LookupSeedLists == SeqsUpTo(LookupIDs, MaxSeeds)

NextGraph ==
    \/ AddCall(GraphEntities, 1, 1, MaxGraphOps)
    \/ \E seeds \in SeedLists, d \in 0..MaxDepth : related_entities(seeds, d)
    \/ \E seeds \in SeedLists : similarity_search(seeds)

SpecGraph == InitGraph /\ [][NextGraph]_vars

---------------------------------------------------------------------------
\* The same aggregation followed round by round: related_entities sends the
\* pipeline, the store runs $graphLookup for each matched document, one
\* query per round, and the remaining stages produce the list returned.

\* related_entities(starting_entities, max_depth) sends the pipeline.
aggregate_begin(starting_entities, arg) ==
    LET seeds == Match(collection, starting_entities) IN
    /\ ~Queried
    /\ NoCallInProgress
    /\ call' = [NoCall EXCEPT !.op = "aggregate",
                              !.starting_entities = starting_entities,
                              !.max_depth = arg,
                              !.maxDepth = EffectiveMaxDepth(arg, max_depth)]
    /\ lookup' = [pc |-> "graphLookup", seeds |-> seeds,
                  st |-> IF seeds = <<>> THEN SearchStart(NoDoc)
                         ELSE SearchStart(seeds[1]),
                  lookups |-> <<>>]
    /\ writers' = [writers EXCEPT ![SequentialCaller] = NoWriter]
    /\ UNCHANGED <<collection, max_depth, nOps>>

\* One round of $graphLookup for the current matched document; after its last
\* round the search of the next matched document starts.
graphLookup_round ==
    /\ lookup.pc = "graphLookup"
    /\ Len(lookup.lookups) < Len(lookup.seeds)
    /\ LET next == LookupRound(collection, lookup.st)
           done == Append(lookup.lookups, Connections(next))
       IN lookup' =
            IF ShouldContinue(next, call.maxDepth)
            THEN [lookup EXCEPT !.st = next]
            ELSE [lookup EXCEPT
                    !.lookups = done,
                    !.st = IF Len(done) < Len(lookup.seeds)
                           THEN SearchStart(lookup.seeds[Len(done) + 1])
                           ELSE SearchStart(NoDoc)]
    /\ UNCHANGED <<collection, max_depth, call, nOps, writers>>

\* The stages after $graphLookup; related_entities returns the list.
aggregate_end ==
    /\ lookup.pc = "graphLookup"
    /\ Len(lookup.lookups) = Len(lookup.seeds)
    /\ LET r == Finish(collection, lookup.lookups)
       IN call' = [call EXCEPT !.op = "related_entities",
                               !.rounds = r.rounds, !.ret = r.ret]
    /\ lookup' = NoLookup
    /\ UNCHANGED <<collection, max_depth, nOps, writers>>

NextLookup ==
    \/ AddCall(LookupEntities, 1, 1, MaxLookupOps)
    \/ \E seeds \in LookupSeedLists, d \in 0..MaxDepth : aggregate_begin(seeds, d)
    \/ graphLookup_round
    \/ aggregate_end

\* The store runs a pipeline it was sent to its end.
SpecLookup ==
    /\ InitGraph
    /\ [][NextLookup]_vars
    /\ WF_vars(graphLookup_round)
    /\ WF_vars(aggregate_end)

---------------------------------------------------------------------------
\* Properties of the traversal (SpecGraph).

IsQuery == call.op \in {"related_entities", "similarity_search"}

StoredIDs(coll) == {coll[i].ID : i \in DOMAIN coll}
ReturnedIDs == {call.ret[i].ID : i \in DOMAIN call.ret}

\* The stored entities that the stored entities named in S point at.
StoredTargets(coll, S) ==
    UNION {StartWith(coll[i]) : i \in {j \in DOMAIN coll : coll[j].ID \in S}}
        \cap StoredIDs(coll)

\* The entities at most n relationship edges beyond `level`.
RECURSIVE ReachableWithin(_, _, _)
ReachableWithin(coll, level, n) ==
    IF n = 0 THEN level
    ELSE level \cup ReachableWithin(coll, StoredTargets(coll, level), n - 1)

\* C1: every stored entity reachable from a stored seed along relationship
\* targets, within the depth limit of the call beyond the seeds' direct
\* targets, is in the list related_entities returns.
C1_TransitiveClosure ==
    IsQuery =>
        ReachableWithin(collection,
                        StoredTargets(collection, Range(call.starting_entities)),
                        call.maxDepth) \subseteq ReturnedIDs

\* C2: the list returned by related_entities holds no two entities with the
\* same ID.
C2_NoDuplicateIDs ==
    IsQuery =>
        \A i, j \in DOMAIN call.ret : call.ret[i].ID = call.ret[j].ID => i = j

\* C2 witness: two stored seeds point at the same stored entity, which is
\* returned.
C2_Witness ==
    /\ IsQuery
    /\ \E i, j \in DOMAIN collection :
          /\ i # j
          /\ {collection[i].ID, collection[j].ID} \subseteq Range(call.starting_entities)
          /\ StartWith(collection[i]) \cap StartWith(collection[j]) \cap ReturnedIDs # {}

\* C3: a traversal that was started returns, whatever cycles and
\* self-references the stored relationships hold, and no search makes more
\* rounds than the depth limit allows (one for the direct targets and one for
\* each level up to maxDepth).
C3_TraversalTerminates ==
    /\ [](lookup.pc = "graphLookup" => <>(lookup.pc = "idle"))
    /\ [](/\ lookup.st.depth <= call.maxDepth + 1
          /\ \A k \in DOMAIN call.rounds : call.rounds[k] <= call.maxDepth + 1)

\* The relationship graph of the store has a cycle through the entity `id`.
RECURSIVE OnCycle(_, _, _, _)
OnCycle(coll, id, from, n) ==
    /\ n > 0
    /\ \/ id \in StoredTargets(coll, from)
       \/ OnCycle(coll, id, StoredTargets(coll, from), n - 1)

\* C3 witness: a traversal returned whose seed lies on a cycle of two stored
\* entities, after it found documents.
C3_Witness ==
    /\ call.op = "related_entities"
    /\ lookup.pc = "idle"
    /\ call.ret # <<>>
    /\ \E i \in DOMAIN collection :
          /\ collection[i].ID \in Range(call.starting_entities)
          /\ collection[i].ID \notin StartWith(collection[i])
          /\ OnCycle(collection, collection[i].ID, {collection[i].ID}, Len(collection))

\* The list a traversal followed round by round returns is the list of Aggregate.
LookupAgreesWithAggregate ==
    (call.op = "related_entities" /\ lookup.pc = "idle") =>
        LET r == Aggregate(collection, call.starting_entities, call.maxDepth)
        IN call.ret = r.ret /\ call.rounds = r.rounds

\* C10: the traversal run by similarity_search (and by chat_response through
\* it) uses no depth limit larger than the max_depth given to the constructor.
C10_ConfiguredDepthIsTheLimit ==
    call.op = "similarity_search" => call.maxDepth <= max_depth

\* C11: the depth limit that related_entities hands to $graphLookup is the
\* max_depth its caller passed, for every value from 0 up, whatever max_depth
\* the store was constructed with.
C11_CallerDepthIsTheLimit ==
    call.op = "related_entities" => call.maxDepth = call.max_depth

---------------------------------------------------------------------------
\* Properties of the merge (SpecMerge).

\* A call of add_documents ended, by returning or by raising; it returned.
AddEnded == call.op = "add_documents"
IsAdd == AddEnded /\ call.error = ""

RECURSIVE Flatten(_)
Flatten(documents) ==
    IF documents = <<>> THEN <<>> ELSE Head(documents) \o Flatten(Tail(documents))

\* The entities of a call extracted under one ID, in extraction order.
ExtractedFor(documents, id) == SelectSeq(Flatten(documents), LAMBDA e : e.ID = id)

PropertyNames == {"position"}
RelationshipTypes == {"employer"}

\* C4: applying the extracted records of a call a second time leaves the
\* collection (every document, and their number) as the first application left it.
C4_MergeIdempotent ==
    AddEnded => AddDocuments(collection, call.documents, <<>>).coll = collection

\* A call that ended left the collection that its extractions, applied one
\* after the other to the collection it found, give, and a call that returned
\* has returned the results of the bulk writes.
StepsAgreeWithAddDocuments ==
    AddEnded =>
        LET r == AddDocuments(call.before, call.documents, <<>>)
        IN collection = r.coll /\ (IsAdd => call.ret = r.results)

\* C4 witness: a call that stored a property value and a relationship.
C4_Witness ==
    /\ IsAdd
    /\ \E i \in DOMAIN collection :
          /\ "position" \in DOMAIN collection[i].properties
          /\ \E e \in Range(Flatten(call.documents)) :
                e.ID = collection[i].ID /\ "position" \in DOMAIN e.properties
    /\ \E i \in DOMAIN collection :
          /\ "employer" \in DOMAIN collection[i].relationships
          /\ \E e \in Range(Flatten(call.documents)) :
                e.ID = collection[i].ID /\ "employer" \in DOMAIN e.relationships

\* C5: no step of an add_documents call changes the ID or the type of a stored
\* entity, and an entity it creates gets the type of the first extraction of
\* its ID in the call.
C5_IdAndTypeSetOnce ==
    [][/\ \A i \in DOMAIN collection :
            /\ i \in DOMAIN collection'
            /\ collection'[i].ID = collection[i].ID
            /\ collection'[i].type = collection[i].type
       /\ \A i \in DOMAIN collection' \ DOMAIN collection :
            collection'[i].type =
                Head(ExtractedFor(writers'[SequentialCaller].documents,
                                   collection'[i].ID)).type]_vars

\* C5 witness: an extraction reported the ID of a stored entity with another type.
C5_Witness ==
    /\ IsAdd
    /\ \E i \in DOMAIN collection :
          \E e \in Range(Flatten(call.documents)) :
              e.ID = collection[i].ID /\ e.type # collection[i].type

Stored(f, k) == Range(Get(f, k, <<>>))

\* C6: after a call, what an entity that existed before it stores under each
\* property name and each relationship type is the union of what it stored
\* before and what the call extracted for it.
C6_MergeIsUnion ==
    IsAdd =>
        \A i \in DOMAIN call.before :
          LET es == Range(ExtractedFor(call.documents, call.before[i].ID)) IN
          /\ \A k \in PropertyNames :
                Stored(collection[i].properties, k) =
                    Stored(call.before[i].properties, k) \cup
                    {e.properties[k] : e \in {x \in es : k \in DOMAIN x.properties}}
          /\ \A k \in RelationshipTypes :
                Stored(collection[i].relationships, k) =
                    Stored(call.before[i].relationships, k) \cup
                    UNION {Stored(e.relationships, k) : e \in es}

\* C6 witness: an entity stored by an earlier call holds two values of a
\* property, the second merged by the last call.
C6_Witness ==
    /\ IsAdd
    /\ Len(Flatten(call.documents)) = 1
    /\ \E i \in DOMAIN collection :
          /\ Len(Get(collection[i].properties, "position", <<>>)) = 2
          /\ Flatten(call.documents)[1].ID = collection[i].ID
          /\ "position" \in DOMAIN Flatten(call.documents)[1].properties

\* C7: the collection holds at most one document per ID.
C7_UniqueID ==
    \A i, j \in DOMAIN collection : collection[i].ID = collection[j].ID => i = j

\* C7 witness: one document of the last call extracted the same ID twice.
C7_Witness ==
    /\ IsAdd
    /\ \E k \in DOMAIN call.documents :
          /\ Len(call.documents[k]) = 2
          /\ call.documents[k][1].ID = call.documents[k][2].ID

\* C8 as claimed: a relationship list holds each target identifier at most once.
C8_TargetsUnique ==
    \A i \in DOMAIN collection : \A k \in DOMAIN collection[i].relationships :
        LET ds == collection[i].relationships[k] IN
        \A a, b \in DOMAIN ds : ds[a].target = ds[b].target => a = b

\* C8 as amended: a relationship list holds each descriptor (a target with its
\* relationship properties) at most once.
C8_DescriptorsUnique ==
    \A i \in DOMAIN collection : \A k \in DOMAIN collection[i].relationships :
        LET ds == collection[i].relationships[k] IN
        \A a, b \in DOMAIN ds : ds[a] = ds[b] => a = b

\* C8 witness: the same relationship to the same target was extracted with and
\* without relationship properties, and both descriptors are stored.
C8_Witness ==
    /\ IsAdd
    /\ \E i \in DOMAIN collection :
          LET ds == Get(collection[i].relationships, "employer", <<>>) IN
          Len(ds) = 2 /\ ds[1].target = ds[2].target /\ ds[1] # ds[2]

\* C9: add_documents returns one value for each input document.
C9_OneResultPerDocument ==
    IsAdd => Len(call.ret) = Len(call.documents)

\* The IDs extracted from the documents of a call.
ExtractedIDs(documents) == {e.ID : e \in Range(Flatten(documents))}

\* C13: a call of add_documents, returned or raised, leaves every stored document whose ID it did
\* not extract as it was (_id, ID, type, properties and relationships, at the
\* same position), and every document it adds carries an extracted ID: the
\* target of an extracted relationship, when not extracted itself, is neither
\* created nor modified.
C13_OnlyExtractedChange ==
    AddEnded =>
        LET ex == ExtractedIDs(call.documents) IN
        /\ Len(collection) >= Len(call.before)
        /\ \A i \in DOMAIN call.before :
              call.before[i].ID \notin ex => collection[i] = call.before[i]
        /\ \A i \in DOMAIN collection \ DOMAIN call.before :
              collection[i].ID \in ex

\* The targets named by the relationships of an extracted entity.
TargetsNamed(e) ==
    UNION {{e.relationships[k][i].target : i \in DOMAIN e.relationships[k]} :
             k \in DOMAIN e.relationships}

\* C13 witness: the last call extracted a relationship whose target it did not
\* extract; the target is an entity stored by an earlier call, and it still
\* holds no property and no relationship.
C13_Witness ==
    /\ IsAdd
    /\ \E e \in Range(Flatten(call.documents)) :
          \E i \in DOMAIN collection :
             /\ collection[i].ID \in TargetsNamed(e)
             /\ collection[i].ID \notin ExtractedIDs(call.documents)
             /\ collection[i].relationships = NoFields
             /\ collection[i].properties = NoFields

---------------------------------------------------------------------------
\* Soundness of the traversal (SpecGraph).

\* The stored entities named as a target by a stored entity whose ID is in S.
Successors(S) ==
    {collection[j].ID : j \in {n \in DOMAIN collection :
        \E i \in DOMAIN collection :
            /\ collection[i].ID \in S
            /\ collection[n].ID \in TargetsNamed(collection[i])}}

\* The entities of `level` and those at most n relationships beyond it.
RECURSIVE WithinDepth(_, _)
WithinDepth(level, n) ==
    IF n = 0 THEN level ELSE level \cup WithinDepth(Successors(level), n - 1)

\* C14: every entity related_entities returns is a stored document without its
\* _id field, reachable from a stored seed within the depth limit of the call
\* (the max_depth passed as well as the maxDepth handed to $graphLookup, the
\* direct targets of the seeds being depth 0); seeds that are not stored,
\* targets that are not stored and entities without relationships add nothing
\* to the result, and an empty seed list gives an empty result.
C14_TraversalIsSound ==
    IsQuery =>
        /\ \A k \in DOMAIN call.ret :
              /\ "_id" \notin DOMAIN call.ret[k]
              /\ \E i \in DOMAIN collection :
                    /\ DOMAIN collection[i] = DOMAIN call.ret[k] \cup {"_id"}
                    /\ \A f \in DOMAIN call.ret[k] : call.ret[k][f] = collection[i][f]
              /\ \A d \in {call.max_depth, call.maxDepth} :
                    call.ret[k].ID \in
                        WithinDepth(Successors(Range(call.starting_entities)), d)
        /\ call.starting_entities = <<>> => call.ret = <<>>

\* C14 witness: a traversal whose seed list names an entity that is not stored
\* returned an entity that has no relationships.
C14_Witness ==
    /\ IsQuery
    /\ \E s \in Range(call.starting_entities) : s \notin StoredIDs(collection)
    /\ \E k \in DOMAIN call.ret : call.ret[k].relationships = NoFields

\* C15: a stored seed is in the list returned by related_entities (and so by
\* similarity_search) only when it is the relationship target of an entity the
\* traversal went through, a stored seed or a returned entity; a seed that none
\* of them targets is absent.
C15_SeedOnlyAsTarget ==
    IsQuery =>
        \A s \in Range(call.starting_entities) \cap ReturnedIDs :
            s \in Successors(Range(call.starting_entities) \cup ReturnedIDs)

\* C15 witness: of two stored seeds the one the other targets is returned and
\* the one nothing targets is not.
C15_Witness ==
    /\ IsQuery
    /\ \E i, j \in DOMAIN collection :
          /\ {collection[i].ID, collection[j].ID} \subseteq Range(call.starting_entities)
          /\ collection[j].ID \in TargetsNamed(collection[i])
          /\ collection[j].ID \in ReturnedIDs
          /\ collection[i].ID \notin ReturnedIDs

---------------------------------------------------------------------------
\* Properties of concurrent merges (SpecConcurrent).

AllReturned == \A w \in Callers : writers[w].pc = "returned"

\* What the callers extracted under one ID.
ExtractedByAll(id) ==
    UNION {Range(SelectSeq(Flatten(writers[w].documents),
                           LAMBDA e : e.ID = id)) : w \in Callers}

\* C12: when the concurrent add_documents calls have returned, each ID that
\* every caller extracted, and that was not stored before, is the ID of exactly
\* one document, which holds under each property name and relationship type
\* the union of what the callers extracted for it.
C12_ConcurrentMergeIsOneUnion ==
    AllReturned =>
        \A id \in MergeIDs :
            (\A w \in Callers :
                \E e \in Range(Flatten(writers[w].documents)) : e.ID = id)
            => /\ Cardinality({i \in DOMAIN collection : collection[i].ID = id}) = 1
               /\ \A i \in DOMAIN collection :
                     collection[i].ID = id =>
                        /\ \A k \in {"position"} :
                              Range(Get(collection[i].properties, k, <<>>)) =
                                 {e.properties[k] :
                                    e \in {x \in ExtractedByAll(id) : k \in DOMAIN x.properties}}
                        /\ \A k \in {"employer"} :
                              Range(Get(collection[i].relationships, k, <<>>)) =
                                 UNION {Range(Get(e.relationships, k, <<>>)) :
                                          e \in ExtractedByAll(id)}

====
